---- MODULE Spec2Model ----
(***************************************************************************)
(* Model of rag_papers: the ingest pipeline (pdf_loader -> chunking ->     *)
(* JSONL cache) and the extractive answer builder (answering).             *)
(*                                                                         *)
(* A Python str is modelled as a sequence of one-character strings.        *)
(***************************************************************************)
EXTENDS Integers, Sequences, FiniteSets, TLC

(***************************************************************************)
(* Bounds of the model.                                                    *)
(***************************************************************************)
MaxLen == 3
MaxChunkSize == 2
MaxPages == 2
MaxSaved == 2
MaxRetrieved == 2
MaxBullets == 2
MaxIter == MaxLen + 2

(***************************************************************************)
(* Characters and generic str helpers.                                     *)
(***************************************************************************)
Whitespace == {" ", "\n", "\t", "\r"}

Min(a, b) == IF a < b THEN a ELSE b

Max(a, b) == IF a > b THEN a ELSE b

RECURSIVE LStrip(_)
LStrip(s) ==
    IF s = <<>> THEN <<>>
    ELSE IF Head(s) \in Whitespace THEN LStrip(Tail(s)) ELSE s

RECURSIVE RStrip(_)
RStrip(s) ==
    IF s = <<>> THEN <<>>
    ELSE IF s[Len(s)] \in Whitespace THEN RStrip(SubSeq(s, 1, Len(s) - 1)) ELSE s

\* str.strip()
Strip(s) == RStrip(LStrip(s))

\* s[i:j] with Python's handling of negative and out-of-range indices
PySlice(s, i, j) ==
    LET n  == Len(s)
        ii == IF i < 0 THEN Max(0, n + i) ELSE Min(i, n)
        jj == IF j < 0 THEN Max(0, n + j) ELSE Min(j, n)
    IN  SubSeq(s, ii + 1, jj)

\* str(n) for an int
RECURSIVE NatStr(_)
NatStr(n) ==
    LET d == <<"0", "1", "2", "3", "4", "5", "6", "7", "8", "9">>
    IN  IF n < 10 THEN <<d[n + 1]>> ELSE NatStr(n \div 10) \o <<d[(n % 10) + 1]>>

IntStr(n) == IF n < 0 THEN <<"-">> \o NatStr(0 - n) ELSE NatStr(n)

RECURSIVE Flatten(_)
Flatten(ss) == IF ss = <<>> THEN <<>> ELSE Head(ss) \o Flatten(Tail(ss))

(***************************************************************************)
(* Inputs of ingest.                                                       *)
(***************************************************************************)
TextChars == {"a", " "}

RawTexts == UNION {[1..n -> TextChars] : n \in 0..MaxLen}

\* load_pdf_pages stores text.strip()
PageTexts == {Strip(r) : r \in RawTexts}

\* the *.pdf files of the directory, in list_pdfs' sorted order
PdfNames == << <<"a", ".", "p", "d", "f">>, <<"b", ".", "p", "d", "f">> >>

ConfigValues == (-1)..MaxChunkSize

ValidConfig(cs, ov) == cs > 0 /\ 0 <= ov /\ ov < cs

\* chunk records handed to save_chunks_jsonl directly: texts with the
\* characters json.dumps escapes, a non-ASCII character, a two-digit number
SavedTexts == { <<"a", "\n", "b">>, <<"\"", "a">>, <<"\\", "n">>,
                <<"a", "\t", "\r", "b">>, <<"é", " ", "}">> }

SavedNames == { <<"a", ".", "p", "d", "f">>, <<"b", "\"", "\\", ".", "p", "d", "f">> }

SavedChunks ==
    [chunk_id : {<<"i", "d">>}, pdf_name : SavedNames, page_number : {1, 12},
     text : SavedTexts, char_start : {0}, char_end : {10}]

\* load_pdf_pages for one file holding the given page texts
LoadPdfPages(name, texts) ==
    [i \in 1..Len(texts) |->
        [pdf_name |-> name, page_number |-> i, text |-> texts[i]]]

VARIABLES pc, pages, chunk_size, overlap, page_i, start, chunk_index,
          chunks, all_chunks, file, loaded,
          question, retrieved, max_bullets, kws, candidates, chunk_i, cand_i,
          bullets, seen

vars == <<pc, pages, chunk_size, overlap, page_i, start, chunk_index,
          chunks, all_chunks, file, loaded,
          question, retrieved, max_bullets, kws, candidates, chunk_i, cand_i,
          bullets, seen>>

ansVars == <<question, retrieved, max_bullets, kws, candidates, chunk_i, cand_i,
             bullets, seen>>

ingVars == <<pages, chunk_size, overlap, page_i, start, chunk_index,
             chunks, all_chunks, file, loaded>>

segVars == <<pages, chunk_size, overlap, page_i, start, chunk_index,
             chunks, all_chunks>>

(***************************************************************************)
(* chunking.py                                                             *)
(***************************************************************************)
\* variant: an id built without the page number
ChunkIdNoPage(page, idx) ==
    page.pdf_name \o <<"_", "_", "c">> \o IntStr(idx)

\* f"{page.pdf_name}__p{page.page_number}__c{chunk_index}"
ChunkId(page, idx) ==
    page.pdf_name \o <<"_", "_", "p">> \o IntStr(page.page_number)
                  \o <<"_", "_", "c">> \o IntStr(idx)

TextChunk(page, idx, chunk_text, s, e) ==
    [chunk_id |-> ChunkId(page, idx), pdf_name |-> page.pdf_name,
     page_number |-> page.page_number, text |-> chunk_text,
     char_start |-> s, char_end |-> e]

WindowEnd(text, s, cs) == Min(s + cs, Len(text))

\* variant: the next window starts where the previous one ended
NextStartNoOverlap(e, ov) == e

\* variant: the step back is one character too long
NextStartBehind(e, ov) == Max(0, e - ov - 1)

\* start = max(0, end - overlap)
NextStart(e, ov) == Max(0, e - ov)

NextChunkIndex(idx) == idx + 1

(***************************************************************************)
(* chunking.py: the JSONL cache (json.dumps / json.loads on one line per   *)
(* chunk).                                                                 *)
(***************************************************************************)
KeyChunkId == <<"c", "h", "u", "n", "k", "_", "i", "d">>

KeyPdfName == <<"p", "d", "f", "_", "n", "a", "m", "e">>

KeyPageNumber == <<"p", "a", "g", "e", "_", "n", "u", "m", "b", "e", "r">>

KeyText == <<"t", "e", "x", "t">>

KeyCharStart == <<"c", "h", "a", "r", "_", "s", "t", "a", "r", "t">>

KeyCharEnd == <<"c", "h", "a", "r", "_", "e", "n", "d">>

ChunkKeys == {KeyChunkId, KeyPdfName, KeyPageNumber, KeyText, KeyCharStart, KeyCharEnd}

\* variant: control characters are written raw
JsonEscapeCharRaw(c) ==
    CASE c = "\"" -> <<"\\", "\"">>
      [] c = "\\" -> <<"\\", "\\">>
      [] OTHER    -> <<c>>

\* json.dumps of one character inside a str (ensure_ascii=False)
JsonEscapeChar(c) ==
    CASE c = "\"" -> <<"\\", "\"">>
      [] c = "\\" -> <<"\\", "\\">>
      [] c = "\n" -> <<"\\", "n">>
      [] c = "\r" -> <<"\\", "r">>
      [] c = "\t" -> <<"\\", "t">>
      [] OTHER    -> <<c>>

\* json.dumps of a str
JsonStr(s) ==
    <<"\"">> \o Flatten([i \in 1..Len(s) |-> JsonEscapeChar(s[i])]) \o <<"\"">>

JsonMember(key, val) == JsonStr(key) \o <<":", " ">> \o val

\* json.dumps(asdict(chunk), ensure_ascii=False): fields in declaration order
JsonDumpsChunk(c) ==
    <<"{">> \o JsonMember(KeyChunkId, JsonStr(c.chunk_id))
    \o <<",", " ">> \o JsonMember(KeyPdfName, JsonStr(c.pdf_name))
    \o <<",", " ">> \o JsonMember(KeyPageNumber, IntStr(c.page_number))
    \o <<",", " ">> \o JsonMember(KeyText, JsonStr(c.text))
    \o <<",", " ">> \o JsonMember(KeyCharStart, IntStr(c.char_start))
    \o <<",", " ">> \o JsonMember(KeyCharEnd, IntStr(c.char_end))
    \o <<"}">>

\* save_chunks_jsonl: the content written to out_path
SaveChunksJsonl(cs) ==
    Flatten([i \in 1..Len(cs) |-> JsonDumpsChunk(cs[i]) \o <<"\n">>])

\* text-mode read with universal newlines: "\r\n" and "\r" become "\n"
UniversalNewlines(s) ==
    LET t == [i \in 1..Len(s) |->
                IF s[i] = "\r" THEN "\n"
                ELSE IF s[i] = "\n" /\ i > 1 /\ s[i - 1] = "\r" THEN "dropped"
                ELSE s[i]]
    IN  SelectSeq(t, LAMBDA c : c # "dropped")

\* `for line in f`: the lines of the stream, each up to and including "\n"
FileLines(s) ==
    LET marks == [i \in 1..Len(s) |-> IF s[i] = "\n" THEN i ELSE 0]
        nl    == SelectSeq(marks, LAMBDA x : x # 0)
        from(k) == IF k = 1 THEN 1 ELSE nl[k - 1] + 1
        last  == IF nl = <<>> THEN 0 ELSE nl[Len(nl)]
        full  == [k \in 1..Len(nl) |-> SubSeq(s, from(k), nl[k])]
    IN  IF last < Len(s) THEN Append(full, SubSeq(s, last + 1, Len(s))) ELSE full

Digits == {"0", "1", "2", "3", "4", "5", "6", "7", "8", "9"}

DigitVal(c) == CHOOSE k \in 0..9 : NatStr(k) = <<c>>

Fail == [ok |-> FALSE, val |-> <<>>, next |-> 0]

RECURSIVE JsonSkipWs(_, _)
JsonSkipWs(s, i) ==
    IF i <= Len(s) /\ s[i] \in Whitespace THEN JsonSkipWs(s, i + 1) ELSE i

\* scan the body of a JSON string from position i (after the opening quote)
RECURSIVE JsonScanStr(_, _, _)
JsonScanStr(s, i, acc) ==
    IF i > Len(s) THEN Fail
    ELSE IF s[i] = "\"" THEN [ok |-> TRUE, val |-> acc, next |-> i + 1]
    ELSE IF s[i] = "\\"
         THEN IF i + 1 > Len(s) THEN Fail
              ELSE CASE s[i + 1] = "\"" -> JsonScanStr(s, i + 2, Append(acc, "\""))
                     [] s[i + 1] = "\\" -> JsonScanStr(s, i + 2, Append(acc, "\\"))
                     [] s[i + 1] = "/"  -> JsonScanStr(s, i + 2, Append(acc, "/"))
                     [] s[i + 1] = "n"  -> JsonScanStr(s, i + 2, Append(acc, "\n"))
                     [] s[i + 1] = "r"  -> JsonScanStr(s, i + 2, Append(acc, "\r"))
                     [] s[i + 1] = "t"  -> JsonScanStr(s, i + 2, Append(acc, "\t"))
                     [] OTHER -> Fail
    ELSE IF s[i] \in {"\n", "\r", "\t"} THEN Fail
    ELSE JsonScanStr(s, i + 1, Append(acc, s[i]))

RECURSIVE JsonScanDigits(_, _, _)
JsonScanDigits(s, i, acc) ==
    IF i <= Len(s) /\ s[i] \in Digits
    THEN JsonScanDigits(s, i + 1, 10 * acc + DigitVal(s[i]))
    ELSE [ok |-> TRUE, val |-> acc, next |-> i]

JsonScanInt(s, i) ==
    IF i <= Len(s) /\ s[i] = "-"
    THEN IF i + 1 <= Len(s) /\ s[i + 1] \in Digits
         THEN LET r == JsonScanDigits(s, i + 1, 0)
              IN  [ok |-> TRUE, val |-> 0 - r.val, next |-> r.next]
         ELSE Fail
    ELSE IF i <= Len(s) /\ s[i] \in Digits THEN JsonScanDigits(s, i, 0)
    ELSE Fail

\* a str or an int value at position i
JsonScanValue(s, i) ==
    IF i > Len(s) THEN Fail
    ELSE IF s[i] = "\"" THEN JsonScanStr(s, i + 1, <<>>)
    ELSE JsonScanInt(s, i)

\* the members of an object from position i (at a key); obj maps keys to values
RECURSIVE JsonScanMembers(_, _, _)
JsonScanMembers(s, i, obj) ==
    IF i > Len(s) \/ s[i] # "\"" THEN Fail
    ELSE
      LET k == JsonScanStr(s, i + 1, <<>>)
          c == JsonSkipWs(s, k.next)
      IN  IF ~k.ok \/ c > Len(s) \/ s[c] # ":" THEN Fail
          ELSE
            LET v == JsonScanValue(s, JsonSkipWs(s, c + 1))
                e == JsonSkipWs(s, v.next)
                obj2 == [x \in (DOMAIN obj) \cup {k.val} |->
                            IF x = k.val THEN v.val ELSE obj[x]]
            IN  IF ~v.ok \/ e > Len(s) THEN Fail
                ELSE IF s[e] = "}" THEN [ok |-> TRUE, val |-> obj2, next |-> e + 1]
                ELSE IF s[e] = "," THEN JsonScanMembers(s, JsonSkipWs(s, e + 1), obj2)
                ELSE Fail

\* json.loads(line) for a line holding one object
JsonLoads(line) ==
    LET i == JsonSkipWs(line, 1)
    IN  IF i > Len(line) \/ line[i] # "{" THEN Fail
        ELSE
          LET j == JsonSkipWs(line, i + 1)
              r == IF j <= Len(line) /\ line[j] = "}"
                   THEN [ok |-> TRUE, val |-> <<>>, next |-> j + 1]
                   ELSE JsonScanMembers(line, j, <<>>)
          IN  IF r.ok /\ JsonSkipWs(line, r.next) > Len(line) THEN r ELSE Fail

\* TextChunk(**obj): exactly the six fields of the dataclass
ChunkFromObj(obj) ==
    [chunk_id |-> obj[KeyChunkId], pdf_name |-> obj[KeyPdfName],
     page_number |-> obj[KeyPageNumber], text |-> obj[KeyText],
     char_start |-> obj[KeyCharStart], char_end |-> obj[KeyCharEnd]]

\* load_chunks_jsonl: the chunks of the file; ok is FALSE when a line raises
LoadChunksJsonl(content) ==
    LET lines  == FileLines(UniversalNewlines(content))
        parsed == [i \in 1..Len(lines) |-> JsonLoads(lines[i])]
    IN  IF \A i \in 1..Len(lines) : parsed[i].ok /\ DOMAIN parsed[i].val = ChunkKeys
        THEN [ok |-> TRUE, val |-> [i \in 1..Len(lines) |-> ChunkFromObj(parsed[i].val)]]
        ELSE [ok |-> FALSE, val |-> <<>>]

Init ==
    /\ pc = "idle"
    /\ pages = <<>>
    /\ chunk_size = 0
    /\ overlap = 0
    /\ page_i = 0
    /\ start = 0
    /\ chunk_index = 0
    /\ chunks = <<>>
    /\ all_chunks = <<>>
    /\ file = <<>>
    /\ loaded = <<>>
    /\ question = <<>>
    /\ retrieved = <<>>
    /\ max_bullets = 1
    /\ kws = <<>>
    /\ candidates = <<>>
    /\ chunk_i = 0
    /\ cand_i = 0
    /\ bullets = <<>>
    /\ seen = {}

\* cli.main, command "ingest": load the pages of every PDF, call chunk_pages
Ingest ==
    /\ pc = "idle"
    /\ \E n1 \in 0..MaxPages, n2 \in 0..MaxPages :
         /\ n1 + n2 >= 1
         /\ n1 + n2 <= MaxPages
         /\ \E t1 \in [1..n1 -> PageTexts], t2 \in [1..n2 -> PageTexts] :
              pages' = LoadPdfPages(PdfNames[1], t1) \o LoadPdfPages(PdfNames[2], t2)
    /\ chunk_size' \in ConfigValues
    /\ overlap' \in ConfigValues
    /\ all_chunks' = <<>>
    /\ page_i' = 1
    /\ pc' = "chunk_pages"
    /\ UNCHANGED ansVars
    /\ UNCHANGED <<start, chunk_index, chunks, file, loaded>>

\* chunk_pages: one iteration of `for page in pages`, entering chunk_page
ChunkPageEnter ==
    /\ pc = "chunk_pages"
    /\ page_i <= Len(pages)
    /\ IF pages[page_i].text = <<>>
       THEN /\ page_i' = page_i + 1
            /\ UNCHANGED <<pc, start, chunk_index, chunks>>
       ELSE /\ chunks' = <<>>
            /\ start' = 0
            /\ chunk_index' = 0
            /\ pc' = "while"
            /\ UNCHANGED page_i
    /\ UNCHANGED ansVars
    /\ UNCHANGED <<pages, chunk_size, overlap, all_chunks, file, loaded>>

\* chunk_page: one iteration of `while start < len(text)`
ChunkWindow ==
    /\ pc = "while"
    /\ start < Len(pages[page_i].text)
    /\ chunk_index < MaxIter
    /\ LET page == pages[page_i]
           text == page.text
           end  == WindowEnd(text, start, chunk_size)
           chunk_text == Strip(PySlice(text, start, end))
           emitted == IF chunk_text # <<>>
                      THEN Append(chunks, TextChunk(page, chunk_index, chunk_text, start, end))
                      ELSE chunks
       IN  IF end = Len(text)
           THEN \* break; return chunks; all_chunks.extend(...)
                /\ all_chunks' = all_chunks \o emitted
                /\ chunks' = emitted
                /\ page_i' = page_i + 1
                /\ pc' = "chunk_pages"
                /\ UNCHANGED <<start, chunk_index>>
           ELSE /\ chunks' = emitted
                /\ start' = NextStart(end, overlap)
                /\ chunk_index' = NextChunkIndex(chunk_index)
                /\ UNCHANGED <<all_chunks, page_i, pc>>
    /\ UNCHANGED ansVars
    /\ UNCHANGED <<pages, chunk_size, overlap, file, loaded>>

\* chunk_page: the while condition is false; return chunks
ChunkWhileExit ==
    /\ pc = "while"
    /\ ~(start < Len(pages[page_i].text))
    /\ all_chunks' = all_chunks \o chunks
    /\ page_i' = page_i + 1
    /\ pc' = "chunk_pages"
    /\ UNCHANGED ansVars
    /\ UNCHANGED <<pages, chunk_size, overlap, start, chunk_index, chunks, file, loaded>>

\* chunk_pages returns all_chunks; cli.main saves them to the JSONL cache
ChunkPagesReturn ==
    /\ pc = "chunk_pages"
    /\ page_i > Len(pages)
    /\ file' = SaveChunksJsonl(all_chunks)
    /\ pc' = "ingested"
    /\ UNCHANGED ansVars
    /\ UNCHANGED <<segVars, loaded>>

\* chunk_pages called on one page whose text is any str (not only a stripped
\* one, as load_pdf_pages makes it)
ChunkPagesCall ==
    /\ pc = "idle"
    /\ \E t \in RawTexts : pages' = LoadPdfPages(PdfNames[1], <<t>>)
    /\ chunk_size' \in ConfigValues
    /\ overlap' \in ConfigValues
    /\ all_chunks' = <<>>
    /\ page_i' = 1
    /\ pc' = "chunk_pages"
    /\ UNCHANGED ansVars
    /\ UNCHANGED <<start, chunk_index, chunks, file, loaded>>

\* save_chunks_jsonl called on a sequence of chunk records
SaveChunks ==
    /\ pc = "idle"
    /\ \E n \in 0..MaxSaved : all_chunks' \in [1..n -> SavedChunks]
    /\ file' = SaveChunksJsonl(all_chunks')
    /\ pc' = "saved"
    /\ UNCHANGED ansVars
    /\ UNCHANGED <<pages, chunk_size, overlap, page_i, start, chunk_index,
                   chunks, loaded>>

\* load_chunks_jsonl on the cache file
LoadChunks ==
    /\ pc = "saved"
    /\ LET r == LoadChunksJsonl(file)
       IN  /\ loaded' = r.val
           /\ pc' = IF r.ok THEN "loaded" ELSE "load_error"
    /\ UNCHANGED ansVars
    /\ UNCHANGED <<segVars, file>>

(***************************************************************************)
(* answering.py                                                            *)
(***************************************************************************)
MinSentenceLen == 25

MinKeywordLen == 3

\* the stop set of _keywords
StopWords ==
    { <<"t", "h", "e">>,
      <<"i", "s">>,
      <<"a", "r", "e">>,
      <<"a">>,
      <<"a", "n">>,
      <<"a", "n", "d">>,
      <<"o", "r">>,
      <<"t", "o">>,
      <<"o", "f">>,
      <<"i", "n">>,
      <<"o", "n">>,
      <<"f", "o", "r">>,
      <<"w", "i", "t", "h">>,
      <<"w", "h", "a", "t">>,
      <<"h", "o", "w">>,
      <<"w", "h", "y">>,
      <<"w", "h", "e", "n">>,
      <<"w", "h", "e", "r", "e">>,
      <<"t", "h", "i", "s">>,
      <<"t", "h", "a", "t">>,
      <<"i", "t">>,
      <<"a", "b", "o", "u", "t">>,
      <<"p", "a", "p", "e", "r">> }

\* the fallback bullet of build_extractive_answer
FallbackLine ==
    <<"-", " ", "I", " ", "c", "o", "u", "l", "d", "n", "'", "t", " ", "e",
      "x", "t", "r", "a", "c", "t", " ", "a", " ", "c", "l", "e", "a", "r",
      " ", "a", "n", "s", "w", "e", "r", " ", "f", "r", "o", "m", " ", "t",
      "h", "e", " ", "r", "e", "t", "r", "i", "e", "v", "e", "d", " ", "c",
      "h", "u", "n", "k", "s", ".", " ", "T", "r", "y", " ", "a", " ", "m",
      "o", "r", "e", " ", "s", "p", "e", "c", "i", "f", "i", "c", " ", "q",
      "u", "e", "s", "t", "i", "o", "n", ".">>

\* default of metadata.get("pdf_name", ...)
UnknownPdf ==
    <<"u", "n", "k", "n", "o", "w", "n", ".", "p", "d", "f">>

UpperLetters == <<"A", "B", "C", "D", "E", "F", "G", "H", "I", "J", "K", "L", "M",
                  "N", "O", "P", "Q", "R", "S", "T", "U", "V", "W", "X", "Y", "Z">>

LowerLetters == <<"a", "b", "c", "d", "e", "f", "g", "h", "i", "j", "k", "l", "m",
                  "n", "o", "p", "q", "r", "s", "t", "u", "v", "w", "x", "y", "z">>

\* the characters matched by [a-zA-Z0-9]
Alnum ==
    {UpperLetters[i] : i \in 1..26} \cup {LowerLetters[i] : i \in 1..26} \cup Digits

LowerChar(c) ==
    IF \E i \in 1..26 : UpperLetters[i] = c
    THEN LowerLetters[CHOOSE i \in 1..26 : UpperLetters[i] = c]
    ELSE c

\* str.lower()
Lower(s) == [i \in 1..Len(s) |-> LowerChar(s[i])]

\* text.replace("\n", " ")
ReplaceNewlines(s) == [i \in 1..Len(s) |-> IF s[i] = "\n" THEN " " ELSE s[i]]

\* `kw in s`
Contains(s, kw) ==
    \E i \in 0..(Len(s) - Len(kw)) : SubSeq(s, i + 1, i + Len(kw)) = kw

SentenceEnd == {".", "!", "?"}

RECURSIVE SkipWhitespace(_, _)
SkipWhitespace(s, i) ==
    IF i <= Len(s) /\ s[i] \in Whitespace THEN SkipWhitespace(s, i + 1) ELSE i

\* re.split(r"(?<=[.!?])\s+", t): cut at every run of whitespace that follows
\* one of . ! ?
RECURSIVE RegexSplit(_, _, _, _)
RegexSplit(t, i, cur, acc) ==
    IF i > Len(t) THEN Append(acc, cur)
    ELSE IF t[i] \in Whitespace /\ i > 1 /\ t[i - 1] \in SentenceEnd
         THEN RegexSplit(t, SkipWhitespace(t, i), <<>>, Append(acc, cur))
         ELSE RegexSplit(t, i + 1, Append(cur, t[i]), acc)

\* len(s.strip()) >= 25
LongEnough(s) == Len(Strip(s)) >= MinSentenceLen

StripAll(parts) == [i \in 1..Len(parts) |-> Strip(parts[i])]

\* _split_into_sentences
SplitIntoSentences(text) ==
    LET t == Strip(ReplaceNewlines(text))
    IN  IF t = <<>> THEN <<>>
        ELSE StripAll(SelectSeq(RegexSplit(t, 1, <<>>, <<>>), LongEnough))

\* re.findall(r"[a-zA-Z0-9]+", s): the maximal runs of alphanumerics
RECURSIVE FindAllAlnum(_, _, _, _)
FindAllAlnum(s, i, cur, acc) ==
    IF i > Len(s) THEN (IF cur = <<>> THEN acc ELSE Append(acc, cur))
    ELSE IF s[i] \in Alnum THEN FindAllAlnum(s, i + 1, Append(cur, s[i]), acc)
    ELSE FindAllAlnum(s, i + 1, <<>>, IF cur = <<>> THEN acc ELSE Append(acc, cur))

IsKeyword(w) == w \notin StopWords /\ Len(w) >= MinKeywordLen

\* _keywords
Keywords(q) == SelectSeq(FindAllAlnum(Lower(q), 1, <<>>, <<>>), IsKeyword)

\* variant: the sentence is compared without lowercasing
ScoreSentenceCaseSensitive(sentence, ks) ==
    Cardinality({k \in 1..Len(ks) : Contains(sentence, ks[k])})

\* _score_sentence: the number of entries of kws found in the lowercased sentence
ScoreSentence(sentence, ks) ==
    Cardinality({k \in 1..Len(ks) : Contains(Lower(sentence), ks[k])})

\* ch.metadata.get(key, default)
MetaGet(meta, key, default) == IF key \in DOMAIN meta THEN meta[key] ELSE default

\* f"[{pdf_name} p.{page_number}]"
Citation(meta) ==
    LET pdf_name == MetaGet(meta, "pdf_name", UnknownPdf)
        page_number == IF "page_number" \in DOMAIN meta
                       THEN IntStr(meta["page_number"]) ELSE <<"?">>
    IN  <<"[">> \o pdf_name \o <<" ", "p", ".">> \o page_number \o <<"]">>

\* variant: only sentences that match a keyword are kept
KeepCandidateMatchOnly(score, ks) == score > 0

\* score > 0 or not kws
KeepCandidate(score, ks) == score > 0 \/ ks = <<>>

\* the candidates of one chunk, in sentence order
ChunkCandidates(ch, ks) ==
    LET sents  == SplitIntoSentences(ch.text)
        scored == [i \in 1..Len(sents) |->
                      [score |-> ScoreSentence(sents[i], ks), sent |-> sents[i],
                       citation |-> Citation(ch.metadata)]]
    IN  SelectSeq(scored, LAMBDA c : KeepCandidate(c.score, ks))

\* insert c behind every entry whose score is at least c's
RECURSIVE InsertByScore(_, _)
InsertByScore(sorted, c) ==
    IF sorted = <<>> THEN <<c>>
    ELSE IF Head(sorted).score >= c.score
         THEN <<Head(sorted)>> \o InsertByScore(Tail(sorted), c)
         ELSE <<c>> \o sorted

RECURSIVE SortFrom(_, _)
SortFrom(cs, sorted) ==
    IF cs = <<>> THEN sorted ELSE SortFrom(Tail(cs), InsertByScore(sorted, Head(cs)))

Reverse(cs) == [i \in 1..Len(cs) |-> cs[Len(cs) + 1 - i]]

\* variant: sorted by score ascending, then reversed (ties come out reversed)
SortCandidatesReversed(cs) ==
    LET neg == [i \in 1..Len(cs) |-> [cs[i] EXCEPT !.score = 0 - cs[i].score]]
        asc == SortFrom(neg, <<>>)
    IN  Reverse([i \in 1..Len(asc) |-> [asc[i] EXCEPT !.score = 0 - asc[i].score]])

\* candidates.sort(key=lambda x: x[0], reverse=True): stable, score descending
SortCandidates(cs) == SortFrom(cs, <<>>)

\* variant: the exact sentence is the key
DedupKeyExact(sent) == sent

\* key = sent.lower()
DedupKey(sent) == Lower(sent)

\* variant: the lowercased key is written out
BulletOfKey(sent, citation) == <<"-", " ">> \o Lower(sent) \o <<" ">> \o citation

\* f"- {sent} {citation}"
Bullet(sent, citation) == <<"-", " ">> \o sent \o <<" ">> \o citation

\* variant: one bullet too many
ReachedMaxBulletsLate(n, mb) == n > mb

\* len(bullets) >= max_bullets
ReachedMaxBullets(n, mb) == n >= mb

(***************************************************************************)
(* Inputs of build_extractive_answer.                                      *)
(***************************************************************************)
TextTwoSentences ==
    <<"T", "r", "a", "n", "s", "f", "o", "r", "m", "e", "r", "s", " ", "u",
      "s", "e", " ", "a", "t", "t", "e", "n", "t", "i", "o", "n", ".", " ",
      "C", "a", "t", "s", " ", "a", "r", "e", " ", "s", "m", "a", "l", "l",
      " ", "d", "o", "m", "e", "s", "t", "i", "c", "a", "t", "e", "d", " ",
      "m", "a", "m", "m", "a", "l", "s", ".">>

TextUpperAndShort ==
    <<"T", "R", "A", "N", "S", "F", "O", "R", "M", "E", "R", "S", " ", "U",
      "S", "E", " ", "A", "T", "T", "E", "N", "T", "I", "O", "N", ".", " ",
      "S", "e", "e", " ", "F", "i", "g", ".", " ", "2", ".">>

TextWithNewline ==
    <<"T", "r", "a", "n", "s", "f", "o", "r", "m", "e", "r", "s", " ", "p",
      "r", "o", "c", "e", "s", "s", "\n", "s", "e", "q", "u", "e", "n", "c",
      "e", "s", " ", "i", "n", " ", "p", "a", "r", "a", "l", "l", "e", "l",
      "!">>

TextBlank ==
    <<" ", " ", "\n">>

TextScored ==
    <<"C", "a", "t", "s", " ", "a", "n", "d", " ", "t", "r", "a", "n", "s",
      "f", "o", "r", "m", "e", "r", "s", " ", "u", "s", "e", " ", "a", "t",
      "t", "e", "n", "t", "i", "o", "n", "?", " ", " ", "C", "a", "t", "s",
      " ", "a", "r", "e", " ", "s", "m", "a", "l", "l", " ", "d", "o", "m",
      "e", "s", "t", "i", "c", "a", "t", "e", "d", " ", "m", "a", "m", "m",
      "a", "l", "s", ".">>

TextShort ==
    <<"T", "o", "o", " ", "s", "h", "o", "r", "t", ".">>

QuestionMark ==
    <<"?">>

QuestionStopWords ==
    <<"W", "h", "a", "t", " ", "i", "s", " ", "i", "t", "?">>

QuestionTransformers ==
    <<"H", "o", "w", " ", "d", "o", " ", "t", "r", "a", "n", "s", "f", "o",
      "r", "m", "e", "r", "s", " ", "u", "s", "e", " ", "a", "t", "t", "e",
      "n", "t", "i", "o", "n", "?">>

QuestionCats ==
    <<"C", "a", "t", "s", " ", "t", "r", "a", "n", "s", "f", "o", "r", "m",
      "e", "r", "s">>

QuestionDogs ==
    <<"d", "o", "g", "s">>

NameA ==
    <<"a", ".", "p", "d", "f">>

NameB ==
    <<"b", ".", "p", "d", "f">>

Questions == {QuestionMark, QuestionStopWords, QuestionTransformers, QuestionCats,
              QuestionDogs}

\* the chunks a retriever may return
RetrievedInputs ==
    << [text |-> TextTwoSentences, metadata |-> [pdf_name |-> NameA, page_number |-> 1]],
       [text |-> TextUpperAndShort, metadata |-> [pdf_name |-> NameB, page_number |-> 3]],
       [text |-> TextWithNewline, metadata |-> <<>>],
       [text |-> TextBlank, metadata |-> [pdf_name |-> NameA, page_number |-> 12]],
       [text |-> TextScored, metadata |-> [pdf_name |-> NameB]],
       [text |-> TextShort, metadata |-> [pdf_name |-> NameA, page_number |-> 1]] >>

\* build_extractive_answer is called: kws = _keywords(question)
Ask ==
    /\ pc = "idle"
    /\ question' \in Questions
    /\ \E n \in 0..MaxRetrieved :
         \E pick \in [1..n -> 1..Len(RetrievedInputs)] :
            retrieved' = [i \in 1..n |-> RetrievedInputs[pick[i]]]
    /\ max_bullets' \in 1..MaxBullets
    /\ kws' = Keywords(question')
    /\ candidates' = <<>>
    /\ chunk_i' = 1
    /\ pc' = "collect"
    /\ UNCHANGED <<cand_i, bullets, seen>>
    /\ UNCHANGED ingVars

\* one iteration of `for ch in chunks`
CollectChunk ==
    /\ pc = "collect"
    /\ chunk_i <= Len(retrieved)
    /\ candidates' = candidates \o ChunkCandidates(retrieved[chunk_i], kws)
    /\ chunk_i' = chunk_i + 1
    /\ UNCHANGED <<pc, question, retrieved, max_bullets, kws, cand_i, bullets, seen>>
    /\ UNCHANGED ingVars

\* candidates.sort(...); bullets = []; seen = set()
SortStep ==
    /\ pc = "collect"
    /\ chunk_i > Len(retrieved)
    /\ candidates' = SortCandidates(candidates)
    /\ bullets' = <<>>
    /\ seen' = {}
    /\ cand_i' = 1
    /\ pc' = "pick"
    /\ UNCHANGED <<question, retrieved, max_bullets, kws, chunk_i>>
    /\ UNCHANGED ingVars

\* one iteration of `for score, sent, citation in candidates`; on break the
\* function returns bullets (non-empty, so the fallback is not added)
PickCandidate ==
    /\ pc = "pick"
    /\ cand_i <= Len(candidates)
    /\ LET c   == candidates[cand_i]
           key == DedupKey(c.sent)
       IN  IF key \in seen
           THEN /\ cand_i' = cand_i + 1
                /\ UNCHANGED <<pc, bullets, seen>>
           ELSE /\ seen' = seen \cup {key}
                /\ bullets' = Append(bullets, Bullet(c.sent, c.citation))
                /\ IF ReachedMaxBullets(Len(bullets'), max_bullets)
                   THEN pc' = "answered" /\ UNCHANGED cand_i
                   ELSE cand_i' = cand_i + 1 /\ UNCHANGED pc
    /\ UNCHANGED <<question, retrieved, max_bullets, kws, candidates, chunk_i>>
    /\ UNCHANGED ingVars

\* the candidates are exhausted: add the fallback if bullets is empty, return
ReturnAnswer ==
    /\ pc = "pick"
    /\ cand_i > Len(candidates)
    /\ bullets' = IF bullets = <<>> THEN <<FallbackLine>> ELSE bullets
    /\ pc' = "answered"
    /\ UNCHANGED <<question, retrieved, max_bullets, kws, candidates, chunk_i,
                   cand_i, seen>>
    /\ UNCHANGED ingVars

\* the ingest command: pages -> chunks -> cache file
NextIngest ==
    \/ Ingest
    \/ ChunkPageEnter
    \/ ChunkWindow
    \/ ChunkWhileExit
    \/ ChunkPagesReturn

\* the chunk cache written and read back
NextCodec ==
    \/ SaveChunks
    \/ LoadChunks

\* build_extractive_answer
NextAnswer ==
    \/ Ask
    \/ CollectChunk
    \/ SortStep
    \/ PickCandidate
    \/ ReturnAnswer

Next == NextIngest \/ NextCodec \/ NextAnswer

Spec == Init /\ [][Next]_vars

SpecIngest == Init /\ [][NextIngest]_vars

SpecCodec == Init /\ [][NextCodec]_vars

SpecAnswer == Init /\ [][NextAnswer]_vars

\* chunk_page on one page of any text
NextSegment ==
    \/ ChunkPagesCall
    \/ ChunkPageEnter
    \/ ChunkWindow
    \/ ChunkWhileExit
    \/ ChunkPagesReturn

\* the code is sequential: a call that can take its next step takes it
SpecSegment == Init /\ [][NextSegment]_vars /\ WF_vars(NextSegment)

(***************************************************************************)
(* Properties of chunk_page / chunk_pages.                                 *)
(***************************************************************************)
\* the chunks of one page, in output order (pages have distinct name/number)
PageChunks(page) ==
    SelectSeq(all_chunks, LAMBDA c : c.pdf_name = page.pdf_name
                                     /\ c.page_number = page.page_number)

\* spans laid over the text: start at 0, end at len(text), each span starts
\* `ov` before the end of its predecessor, every character is in some span
SpansCover(cs, text, ov) ==
    /\ cs # <<>>
    /\ cs[1].char_start = 0
    /\ cs[Len(cs)].char_end = Len(text)
    /\ \A k \in 2..Len(cs) : cs[k].char_start = cs[k - 1].char_end - ov
    /\ \A i \in 0..(Len(text) - 1) :
          \E k \in 1..Len(cs) : cs[k].char_start <= i /\ i < cs[k].char_end

\* offsets k * (size - ov) at which a window begins: offset 0, and every later
\* offset whose predecessor's window ended before the end of the text
WindowOffsets(text, size, ov) ==
    {s \in 0..(Len(text) - 1) :
        s % (size - ov) = 0 /\ (s = 0 \/ s + ov < Len(text))}

NoBlankWindow(text, size, ov) ==
    \A s \in WindowOffsets(text, size, ov) :
        Strip(SubSeq(text, s + 1, Min(s + size, Len(text)))) # <<>>

SegmentedValid == pc = "ingested" /\ ValidConfig(chunk_size, overlap)

\* C1 as stated: for every non-empty page text and valid configuration the
\* spans of the returned chunks cover the text, first at 0, last at len(text),
\* consecutive spans overlapping by exactly `overlap`
C1_SpansCoverText ==
    SegmentedValid =>
        \A p \in 1..Len(pages) :
            pages[p].text # <<>> =>
                SpansCover(PageChunks(pages[p]), pages[p].text, overlap)

\* C1 amended: the same, for the page texts none of whose windows is
\* whitespace-only (a whitespace-only window is dropped from the output)
C1_SpansCoverTextNoBlank ==
    SegmentedValid =>
        \A p \in 1..Len(pages) :
            (pages[p].text # <<>> /\ NoBlankWindow(pages[p].text, chunk_size, overlap)) =>
                SpansCover(PageChunks(pages[p]), pages[p].text, overlap)

C1_Witness ==
    /\ SegmentedValid
    /\ overlap > 0
    /\ \E p \in 1..Len(pages) :
          /\ NoBlankWindow(pages[p].text, chunk_size, overlap)
          /\ Len(PageChunks(pages[p])) >= 2
          /\ \E c \in 1..Len(all_chunks) : Len(all_chunks[c].text) < chunk_size

\* C3: no two chunks returned by chunk_pages share a chunk_id
C3_ChunkIdsUnique ==
    SegmentedValid =>
        \A i, j \in 1..Len(all_chunks) :
            i # j => all_chunks[i].chunk_id # all_chunks[j].chunk_id

C3_Witness ==
    /\ SegmentedValid
    /\ \E i, j \in 1..Len(all_chunks) :
          /\ all_chunks[i].pdf_name # all_chunks[j].pdf_name
          /\ all_chunks[i].char_start = all_chunks[j].char_start
    /\ \E i, j \in 1..Len(all_chunks) :
          /\ all_chunks[i].pdf_name = all_chunks[j].pdf_name
          /\ all_chunks[i].page_number = all_chunks[j].page_number
          /\ i # j

\* C8: with invalid windowing parameters segmentation never begins: the
\* window loop is not entered and no chunk is produced
C8_InvalidConfigRejected ==
    (pc \in {"chunk_pages", "while", "ingested"} /\ ~ValidConfig(chunk_size, overlap)) =>
        (pc # "while" /\ pc # "ingested" /\ chunks = <<>> /\ all_chunks = <<>>)

\* the window loop is running on the current page with a valid configuration
InLoopValid == pc = "while" /\ ValidConfig(chunk_size, overlap)

\* an iteration that stays in the loop moves the window start forward
StartIncreases == (InLoopValid /\ pc' = "while") => start' > start

\* the loop is left exactly at a window that ends at len(text), never through
\* the while condition
EndsAtTextEnd ==
    InLoopValid =>
        LET text == pages[page_i].text
            end  == Min(start + chunk_size, Len(text))
        IN  /\ start < Len(text)
            /\ (pc' # "while") <=> (end = Len(text))

\* an empty text returns no chunk without entering the loop
EmptyTextSkipsLoop ==
    /\ pc = "while" => pages[page_i].text # <<>>
    /\ (pc = "ingested" /\ \A p \in 1..Len(pages) : pages[p].text = <<>>)
          => all_chunks = <<>>

\* C11: for every page text and every valid configuration the window loop
\* terminates: the window start strictly increases on every iteration, the
\* loop ends at the first window whose end equals len(text), and an empty
\* text returns an empty sequence without entering the loop
C11_LoopTerminates ==
    /\ [][StartIncreases /\ EndsAtTextEnd]_vars
    /\ []EmptyTextSkipsLoop
    /\ ((pc = "chunk_pages" /\ ValidConfig(chunk_size, overlap)) ~> (pc = "ingested"))

C11_Witness ==
    /\ pc = "ingested"
    /\ ValidConfig(chunk_size, overlap)
    /\ chunk_index >= 2
    /\ start > 0
    /\ Len(all_chunks) < chunk_index + 1

C11_WitnessEmpty ==
    /\ pc = "ingested"
    /\ ValidConfig(chunk_size, overlap)
    /\ pages # <<>>
    /\ pages[1].text = <<>>

(***************************************************************************)
(* Properties of the JSONL cache.                                          *)
(***************************************************************************)
\* C10: load_chunks_jsonl after save_chunks_jsonl returns the saved sequence:
\* same number of records, same order, every field equal; the file holds
\* one line per record
C10_RoundTrip ==
    (pc \in {"saved", "loaded", "load_error"} =>
        Cardinality({i \in 1..Len(file) : file[i] = "\n"}) = Len(all_chunks))
    /\ (pc \in {"loaded", "load_error"} => (pc = "loaded" /\ loaded = all_chunks))

C10_Witness ==
    /\ pc = "loaded"
    /\ Len(loaded) >= 2
    /\ \E i \in 1..Len(loaded) : "\n" \in {loaded[i].text[k] : k \in 1..Len(loaded[i].text)}
    /\ \E i \in 1..Len(loaded) : "\\" \in {loaded[i].pdf_name[k] : k \in 1..Len(loaded[i].pdf_name)}

(***************************************************************************)
(* Properties of build_extractive_answer.                                  *)
(***************************************************************************)
Answered == pc = "answered"

SentenceBullets == {k \in 1..Len(bullets) : bullets[k] # FallbackLine}

StartsWith(s, pre) == Len(s) >= Len(pre) /\ SubSeq(s, 1, Len(pre)) = pre

EndsWith(s, suf) ==
    Len(s) >= Len(suf) /\ SubSeq(s, Len(s) - Len(suf) + 1, Len(s)) = suf

\* b is "- {sentence} {citation}" with the citation of chunk ch; the sentence
BulletSentence(b, ch) ==
    SubSeq(b, 3, Len(b) - Len(Citation(ch.metadata)) - 1)

HasCitationOf(b, ch) ==
    /\ StartsWith(b, <<"-", " ">>)
    /\ EndsWith(b, <<" ">> \o Citation(ch.metadata))
    /\ BulletSentence(b, ch) # <<>>

\* C2 as stated: every sentence bullet is "- {sentence} {citation}" where the
\* sentence is a character-for-character substring of the text of a retrieved
\* chunk and the citation is built from that chunk's metadata
C2_BulletVerbatim ==
    Answered =>
        \A k \in SentenceBullets :
            \E c \in 1..Len(retrieved) :
                /\ HasCitationOf(bullets[k], retrieved[c])
                /\ Contains(retrieved[c].text, BulletSentence(bullets[k], retrieved[c]))

\* C2 amended: the sentence is a substring of the chunk's text with every
\* newline replaced by a space
C2_BulletVerbatimModuloNewlines ==
    Answered =>
        \A k \in SentenceBullets :
            \E c \in 1..Len(retrieved) :
                /\ HasCitationOf(bullets[k], retrieved[c])
                /\ Contains([i \in 1..Len(retrieved[c].text) |->
                                IF retrieved[c].text[i] = "\n" THEN " "
                                ELSE retrieved[c].text[i]],
                            BulletSentence(bullets[k], retrieved[c]))

C2_Witness ==
    /\ Answered
    /\ Len(bullets) >= 2
    /\ SentenceBullets = 1..Len(bullets)
    /\ \E c \in 1..Len(retrieved) :
          /\ \E k \in SentenceBullets : HasCitationOf(bullets[k], retrieved[c])
          /\ \E i \in 1..Len(retrieved[c].text) : retrieved[c].text[i] = "\n"
    /\ \E c \in 1..Len(retrieved) : \E i \in 1..Len(retrieved[c].text) :
          retrieved[c].text[i] \in {UpperLetters[u] : u \in 1..26}

\* every sentence extracted from the retrieved chunks, in traversal order
\* (chunk order, then sentence order), with its chunk's citation
Traversal ==
    Flatten([c \in 1..Len(retrieved) |->
        LET sents == SplitIntoSentences(retrieved[c].text)
        IN  [i \in 1..Len(sents) |->
                [sent |-> sents[i], citation |-> Citation(retrieved[c].metadata)]]])

\* the sentence contains, ignoring case, at least one keyword
MatchesKeyword(sent) == \E k \in 1..Len(kws) : Contains(Lower(sent), kws[k])

\* number of keywords the sentence contains, ignoring case
MatchCount(sent) == Cardinality({k \in 1..Len(kws) : Contains(Lower(sent), kws[k])})

Qualifies(sent) == kws = <<>> \/ MatchesKeyword(sent)

QualifyingIn(T) == {t \in 1..Len(T) : Qualifies(T[t].sent)}

Qualifying == QualifyingIn(Traversal)

\* C4: the answer has between 1 and max_bullets lines; it is exactly the
\* fallback line when no sentence qualifies, and the fallback line never
\* appears together with a sentence bullet
C4_AnswerBounded ==
    Answered =>
        /\ 1 <= Len(bullets)
        /\ Len(bullets) <= max_bullets
        /\ (Qualifying = {} => bullets = <<FallbackLine>>)
        /\ (SentenceBullets # 1..Len(bullets) => bullets = <<FallbackLine>>)

C4_Witness ==
    /\ Answered
    /\ bullets = <<FallbackLine>>
    /\ retrieved # <<>>
    /\ \E c \in 1..Len(retrieved) : retrieved[c].text # <<>> /\ Strip(retrieved[c].text) = <<>>

C4_WitnessFull ==
    /\ Answered
    /\ Len(bullets) = max_bullets
    /\ Cardinality(Qualifying) > max_bullets

\* position in the traversal of the sentence a bullet was made from
TraversalPosIn(T, b) ==
    CHOOSE t \in 1..Len(T) :
        /\ <<"-", " ">> \o T[t].sent \o <<" ">> \o T[t].citation = b
        /\ \A u \in 1..(t - 1) : <<"-", " ">> \o T[u].sent \o <<" ">> \o T[u].citation # b

TraversalPos(b) == TraversalPosIn(Traversal, b)

\* C5: bullets are ordered by score descending; among equal scores they keep
\* the traversal order (chunk order, then sentence order within the chunk)
C5_OrderedStable ==
    (Answered /\ SentenceBullets = 1..Len(bullets)) =>
        LET T == Traversal
        IN  \A i, j \in 1..Len(bullets) :
                i < j =>
                    LET pi == TraversalPosIn(T, bullets[i])
                        pj == TraversalPosIn(T, bullets[j])
                        si == MatchCount(T[pi].sent)
                        sj == MatchCount(T[pj].sent)
                    IN  si > sj \/ (si = sj /\ pi < pj)

C5_Witness ==
    /\ Answered
    /\ Len(bullets) >= 2
    /\ SentenceBullets = 1..Len(bullets)
    /\ TraversalPos(bullets[1]) > TraversalPos(bullets[2])

C5_WitnessTie ==
    /\ Answered
    /\ Len(bullets) >= 2
    /\ SentenceBullets = 1..Len(bullets)
    /\ kws # <<>>
    /\ MatchCount(Traversal[TraversalPos(bullets[1])].sent)
         = MatchCount(Traversal[TraversalPos(bullets[2])].sent)

\* the entries of the sorted candidate list that are the first with their
\* sentence, ignoring case
FirstOccurrences ==
    {i \in 1..Len(candidates) :
        \A j \in 1..(i - 1) : Lower(candidates[j].sent) # Lower(candidates[i].sent)}

NthFirstOccurrence(n) ==
    CHOOSE i \in FirstOccurrences : Cardinality({j \in FirstOccurrences : j <= i}) = n

\* C6: no two bullets carry sentences equal ignoring case; the n-th bullet
\* is the n-th distinct sentence of the score-sorted candidates with the
\* citation of its first occurrence there, and skipped duplicates do not
\* count towards max_bullets
C6_DedupFirstOccurrence ==
    (Answered /\ candidates # <<>>) =>
        /\ Len(bullets) = Min(max_bullets, Cardinality(FirstOccurrences))
        /\ \A n \in 1..Len(bullets) :
              LET c == candidates[NthFirstOccurrence(n)]
              IN  bullets[n] = <<"-", " ">> \o c.sent \o <<" ">> \o c.citation
        /\ \A m, n \in 1..Len(bullets) :
              m # n => Lower(candidates[NthFirstOccurrence(m)].sent)
                         # Lower(candidates[NthFirstOccurrence(n)].sent)

C6_Witness ==
    /\ Answered
    /\ Len(bullets) = 2
    /\ \E i \in 1..Len(candidates) :
          /\ i \notin FirstOccurrences
          /\ i < NthFirstOccurrence(2)
          /\ candidates[i].sent # candidates[NthFirstOccurrence(1)].sent
          /\ candidates[i].citation # candidates[NthFirstOccurrence(1)].citation

\* C7 as stated: with an empty keyword set and a non-empty sequence of
\* chunks the answer consists of sentence bullets, never the fallback line
C7_NoKeywordsNoFallback ==
    (Answered /\ kws = <<>> /\ retrieved # <<>>) =>
        (SentenceBullets = 1..Len(bullets) /\ Len(bullets) <= max_bullets)

\* C7 amended: with an empty keyword set the answer is the fallback line
\* exactly when no retrieved chunk yields a sentence (which covers the empty
\* sequence of chunks); otherwise it is up to max_bullets sentence bullets
C7_NoKeywordsFallbackIffNoSentence ==
    (Answered /\ kws = <<>>) =>
        IF \A c \in 1..Len(retrieved) : SplitIntoSentences(retrieved[c].text) = <<>>
        THEN bullets = <<FallbackLine>>
        ELSE SentenceBullets = 1..Len(bullets) /\ 1 <= Len(bullets)
             /\ Len(bullets) <= max_bullets

C7_Witness ==
    /\ Answered
    /\ kws = <<>>
    /\ question # <<"?">>
    /\ Len(retrieved) >= 2
    /\ Len(bullets) = 2
    /\ SentenceBullets = 1..Len(bullets)

C7_WitnessFallback ==
    /\ Answered
    /\ kws = <<>>
    /\ retrieved # <<>>
    /\ bullets = <<FallbackLine>>

\* C9: with at least one keyword the candidates are exactly the extracted
\* sentences that contain a keyword ignoring case, so no bullet has score 0
\* and without a matching sentence the answer is the fallback line; with no
\* keyword every extracted sentence is a candidate
C9_CandidateIffMatch ==
    pc \in {"pick", "answered"} =>
        LET T == Traversal
            Q == QualifyingIn(T)
        IN  /\ Len(candidates) = Cardinality(Q)
            /\ \A i \in 1..Len(candidates) :
                  /\ \E t \in Q : T[t].sent = candidates[i].sent
                                   /\ T[t].citation = candidates[i].citation
                  /\ kws # <<>> => (candidates[i].score > 0
                                    /\ MatchesKeyword(candidates[i].sent))
            /\ (Answered /\ kws # <<>>) =>
                  /\ \A k \in SentenceBullets :
                        \E i \in 1..Len(candidates) :
                            /\ bullets[k] = <<"-", " ">> \o candidates[i].sent
                                                \o <<" ">> \o candidates[i].citation
                            /\ MatchesKeyword(candidates[i].sent)
                  /\ (\A t \in 1..Len(T) : ~MatchesKeyword(T[t].sent))
                        => bullets = <<FallbackLine>>

C9_Witness ==
    /\ Answered
    /\ kws # <<>>
    /\ SentenceBullets # {}
    /\ Len(candidates) < Len(Traversal)
    /\ \E i \in 1..Len(candidates) :
          /\ MatchesKeyword(candidates[i].sent)
          /\ \A k \in 1..Len(kws) : ~Contains(candidates[i].sent, kws[k])

C9_WitnessNoMatch ==
    /\ Answered
    /\ kws # <<>>
    /\ Traversal # <<>>
    /\ bullets = <<FallbackLine>>
====
